---- MODULE Spec2Model ----
(***************************************************************************)
(* OCR_Conversion: the unit-extraction pipeline of final_filter.py and the *)
(* batch driver of final_main.py.                                          *)
(*                                                                         *)
(* Texts, numbers and units are strings, read character by character, so   *)
(* that the two regular expressions, the f-string formatting and the       *)
(* vocabulary lookups are modelled by what they do.  A float is modelled   *)
(* as an exact decimal m * 10^e (m without trailing zeros): products of    *)
(* whole numbers by whole factors are then exactly the IEEE doubles the    *)
(* program computes; other products are the real product, which a double   *)
(* only approximates.                                                      *)
(***************************************************************************)
EXTENDS Integers, Sequences, FiniteSets, TLC

VARIABLES
    processor,            \* rapidfuzz's default processor (release dependent)
    pc,                   \* position in the pipeline / the driver
    number,               \* extract_numbers_with_units: match[0]
    unit_candidate,       \* extract_numbers_with_units: match[3]
    input_text,           \* the text handed to convert_to_full_unit
    output,               \* convert_to_full_unit: output
    numbers,              \* convert_to_full_unit: numbers
    full_units,           \* convert_to_full_unit: full_units
    categorized_values,   \* result of categorize_values
    entity_name,          \* the entity asked for
    final_val,            \* result of get_entity_value
    data,                 \* final_main: the input table
    pos,                  \* final_main: rows of data already iterated
    image,                \* final_main: outcome of loading / OCR of the row
    results,              \* final_main: results
    output_csv,           \* final_main: the file named output_csv
    runs                  \* number of times the driver was started

vars == << processor, pc, number, unit_candidate, input_text, output, numbers,
           full_units, categorized_values, entity_name, final_val,
           data, pos, image, results, output_csv, runs >>

pipeVars == << number, unit_candidate, input_text, output, numbers, full_units,
               categorized_values, entity_name, final_val >>

driverVars == << data, pos, image, results, output_csv, runs >>

-----------------------------------------------------------------------------
(* Static tables of final_filter.py                                        *)

\* dict order is insertion order: the sequence keeps it
unit_fullform_to_abbreviation ==
    <<
       [full |-> "centimetre", abbreviations |-> << "cm", "centimeter", "centimetres", "centimeters" >>],
       [full |-> "millimetre", abbreviations |-> << "mm", "millimeter", "millimetres", "millimeters" >>],
       [full |-> "metre", abbreviations |-> << "m", "meter", "meters", "metres" >>],
       [full |-> "inch", abbreviations |-> << "in", "inches", "\"" >>],
       [full |-> "foot", abbreviations |-> << "ft", "feet", "'" >>],
       [full |-> "yard", abbreviations |-> << "yd", "yards" >>],
       [full |-> "gram", abbreviations |-> << "g", "gm", "gms", "grams" >>],
       [full |-> "kilogram", abbreviations |-> << "kg", "kgs", "kilograms" >>],
       [full |-> "milligram", abbreviations |-> << "mg", "mgs", "milligrams" >>],
       [full |-> "microgram", abbreviations |-> << "mcg", "μg", "micrograms" >>],
       [full |-> "ounce", abbreviations |-> << "oz", "ounces" >>],
       [full |-> "pound", abbreviations |-> << "lb", "lbs", "pounds" >>],
       [full |-> "ton", abbreviations |-> << "t", "tonne", "tonnes", "tons" >>],
       [full |-> "volt", abbreviations |-> << "v", "volts" >>],
       [full |-> "kilovolt", abbreviations |-> << "kv", "kilovolts" >>],
       [full |-> "millivolt", abbreviations |-> << "mv", "millivolts" >>],
       [full |-> "watt", abbreviations |-> << "w", "watts" >>],
       [full |-> "kilowatt", abbreviations |-> << "kw", "kilowatts" >>],
       [full |-> "litre", abbreviations |-> << "l", "liters", "litre", "litres" >>],
       [full |-> "millilitre", abbreviations |-> << "ml", "milliliters", "millilitres", "mls" >>],
       [full |-> "centilitre", abbreviations |-> << "cl", "centiliters", "centilitres" >>],
       [full |-> "decilitre", abbreviations |-> << "dl", "deciliters", "decilitres" >>],
       [full |-> "cubic foot", abbreviations |-> << "cu ft", "ft³" >>],
       [full |-> "cubic inch", abbreviations |-> << "cu in", "in³" >>],
       [full |-> "fluid ounce", abbreviations |-> << "fl oz", "fluid ounces" >>],
       [full |-> "gallon", abbreviations |-> << "gal", "gallons" >>],
       [full |-> "imperial gallon", abbreviations |-> << "imp gal", "imperial gallons" >>],
       [full |-> "pint", abbreviations |-> << "pt", "pints" >>],
       [full |-> "quart", abbreviations |-> << "qt", "quarts" >>],
       [full |-> "microlitre", abbreviations |-> << "ul", "μl", "microlitres", "microliters" >>],
       [full |-> "cup", abbreviations |-> << "cup", "cups" >>]
    >>

\* the factors as exact decimals m * 10^e
conversion_factors_to_smallest ==
       ("millimetre" :> [m |-> 1, e |-> 0])         \* 1
    @@ ("centimetre" :> [m |-> 1, e |-> 1])         \* 10
    @@ ("metre" :> [m |-> 1, e |-> 3])              \* 1000
    @@ ("inch" :> [m |-> 254, e |-> -1])            \* 25.4
    @@ ("foot" :> [m |-> 3048, e |-> -1])           \* 304.8
    @@ ("yard" :> [m |-> 9144, e |-> -1])           \* 914.4
    @@ ("milligram" :> [m |-> 1, e |-> 0])          \* 1
    @@ ("gram" :> [m |-> 1, e |-> 3])               \* 1000
    @@ ("kilogram" :> [m |-> 1, e |-> 6])           \* 1000000
    @@ ("microgram" :> [m |-> 1, e |-> -3])         \* 0.001
    @@ ("ounce" :> [m |-> 283495, e |-> -1])        \* 28349.5
    @@ ("pound" :> [m |-> 453592, e |-> 0])         \* 453592
    @@ ("ton" :> [m |-> 1, e |-> 9])                \* 1000000000
    @@ ("millivolt" :> [m |-> 1, e |-> 0])          \* 1
    @@ ("volt" :> [m |-> 1, e |-> 3])               \* 1000
    @@ ("kilovolt" :> [m |-> 1, e |-> 6])           \* 1000000
    @@ ("millilitre" :> [m |-> 1, e |-> 0])         \* 1
    @@ ("litre" :> [m |-> 1, e |-> 3])              \* 1000
    @@ ("centilitre" :> [m |-> 1, e |-> 1])         \* 10
    @@ ("decilitre" :> [m |-> 1, e |-> 2])          \* 100
    @@ ("fluid ounce" :> [m |-> 295735, e |-> -4])  \* 29.5735
    @@ ("gallon" :> [m |-> 378541, e |-> -2])       \* 3785.41
    @@ ("pint" :> [m |-> 473176, e |-> -3])         \* 473.176
    @@ ("quart" :> [m |-> 946353, e |-> -3])        \* 946.353
    @@ ("microlitre" :> [m |-> 1, e |-> -3])        \* 0.001
    @@ ("cubic inch" :> [m |-> 163871, e |-> -4])   \* 16.3871
    @@ ("cubic foot" :> [m |-> 283168, e |-> -1])   \* 28316.8
    @@ ("watt" :> [m |-> 1, e |-> 0])               \* 1
    @@ ("kilowatt" :> [m |-> 1, e |-> 3])           \* 1000

\* the dict's keys in insertion order
category_order == << "length", "weight", "voltage", "volume", "wattage" >>

unit_categories ==
       ("length" :> {"millimetre", "centimetre", "metre", "inch", "foot", "yard"})
    @@ ("weight" :> {"milligram", "gram", "kilogram", "microgram", "ounce", "pound", "ton"})
    @@ ("voltage" :> {"millivolt", "volt", "kilovolt"})
    @@ ("volume" :> {"millilitre", "litre", "centilitre", "decilitre", "fluid ounce",
                     "gallon", "pint", "quart", "microlitre", "cubic inch", "cubic foot"})
    @@ ("wattage" :> {"watt", "kilowatt"})

RECURSIVE Flatten(_)
\* concatenation of a sequence of sequences, in order
Flatten(ss) ==
    IF ss = << >> THEN << >> ELSE Head(ss) \o Flatten(Tail(ss))

\* all_units = [abbrev for unit_list in ....values() for abbrev in unit_list]
all_units ==
    Flatten([i \in 1..Len(unit_fullform_to_abbreviation) |->
                unit_fullform_to_abbreviation[i].abbreviations])

-----------------------------------------------------------------------------
(* Characters and character classes of the two regular expressions         *)

Char(s, i) == SubSeq(s, i, i)

Max(a, b) == IF a >= b THEN a ELSE b

Min(a, b) == IF a <= b THEN a ELSE b

LowerCase == "abcdefghijklmnopqrstuvwxyz"

UpperCase == "ABCDEFGHIJKLMNOPQRSTUVWXYZ"

\* \d  (the texts of the model hold ASCII digits only)
Digits == {"0", "1", "2", "3", "4", "5", "6", "7", "8", "9"}

\* [a-zA-Z]
AsciiLetters ==
    {Char(LowerCase, i) : i \in 1..Len(LowerCase)} \cup
    {Char(UpperCase, i) : i \in 1..Len(UpperCase)}

\* \s
Whitespace == {" ", "\t", "\n"}

\* [0-9.]
NumberChars == Digits \cup {"."}

\* str.isalnum(): ASCII letters and digits, and the two non-ASCII characters
\* of the vocabulary (the letter mu, the digit superscript three)
AlphaNumeric == Digits \cup AsciiLetters \cup {"μ", "³"}

\* \w of a str pattern: alphanumerics and the underscore
WordChars == AlphaNumeric \cup {"_"}

\* the end (exclusive) of the longest run of characters of cls that starts
\* at i: a greedy  cls*  of the regular expression engine
RunEnd(s, i, cls) ==
    CHOOSE j \in i..(Len(s) + 1) :
        /\ \A k \in i..(j - 1) : Char(s, k) \in cls
        /\ j = Len(s) + 1 \/ Char(s, j) \notin cls

\* str.lower() of one character
LowerChar(c) ==
    IF \E i \in 1..Len(UpperCase) : Char(UpperCase, i) = c
    THEN Char(LowerCase, CHOOSE i \in 1..Len(UpperCase) : Char(UpperCase, i) = c)
    ELSE c

RECURSIVE Lower(_)
\* str.lower()
Lower(s) ==
    IF s = "" THEN "" ELSE LowerChar(Char(s, 1)) \o Lower(SubSeq(s, 2, Len(s)))

\* str.strip()
Strip(s) ==
    LET first == RunEnd(s, 1, Whitespace)
        last  == IF first > Len(s) THEN first - 1
                 ELSE CHOOSE j \in first..Len(s) :
                        /\ Char(s, j) \notin Whitespace
                        /\ \A k \in (j + 1)..Len(s) : Char(s, k) \in Whitespace
    IN  SubSeq(s, first, last)

RECURSIVE CollapseWhitespace(_)
\* re.sub(r'\s+', ' ', s)
CollapseWhitespace(s) ==
    IF s = "" THEN ""
    ELSE IF Char(s, 1) \in Whitespace
         THEN " " \o CollapseWhitespace(SubSeq(s, RunEnd(s, 1, Whitespace), Len(s)))
         ELSE Char(s, 1) \o CollapseWhitespace(SubSeq(s, 2, Len(s)))

-----------------------------------------------------------------------------
(* PART 1: extraction (final_filter.py lines 75-76): a number, that is      *)
(* digits with an optional fraction, optional whitespace, ASCII letters.   *)

NoMatch == [ok |-> FALSE]

\* a variant of the pattern whose number group stops before the fraction
PatternMatchAtWholePart(text, i) ==
    LET dEnd == RunEnd(text, i, Digits)
        fEnd == IF /\ dEnd <= Len(text)
                   /\ Char(text, dEnd) = "."
                   /\ RunEnd(text, dEnd + 1, Digits) > dEnd + 1
                THEN RunEnd(text, dEnd + 1, Digits)
                ELSE dEnd
        sEnd == RunEnd(text, fEnd, Whitespace)
        lEnd == RunEnd(text, sEnd, AsciiLetters)
    IN  IF dEnd > i /\ lEnd > sEnd
        THEN [ok |-> TRUE,
              number |-> SubSeq(text, i, dEnd - 1),
              unit_candidate |-> SubSeq(text, sEnd, lEnd - 1),
              end |-> lEnd]
        ELSE NoMatch

\* The pattern tried at position i.  Every quantifier is greedy and no
\* shorter choice can succeed (the character after a shortened run is of the
\* run's own class, which the next group does not accept), so the greedy
\* parse is the match.
PatternMatchAt(text, i) ==
    LET dEnd == RunEnd(text, i, Digits)
        fEnd == IF /\ dEnd <= Len(text)
                   /\ Char(text, dEnd) = "."
                   /\ RunEnd(text, dEnd + 1, Digits) > dEnd + 1
                THEN RunEnd(text, dEnd + 1, Digits)
                ELSE dEnd
        sEnd == RunEnd(text, fEnd, Whitespace)
        lEnd == RunEnd(text, sEnd, AsciiLetters)
    IN  IF dEnd > i /\ lEnd > sEnd
        THEN [ok |-> TRUE,
              number |-> SubSeq(text, i, fEnd - 1),
              unit_candidate |-> SubSeq(text, sEnd, lEnd - 1),
              end |-> lEnd]
        ELSE NoMatch

RECURSIVE FindAllFrom(_, _)
\* re.findall(pattern, text): left to right, non-overlapping
FindAllFrom(text, i) ==
    IF i > Len(text) THEN << >>
    ELSE LET mt == PatternMatchAt(text, i)
         IN  IF mt.ok
             THEN << [number |-> mt.number, unit_candidate |-> mt.unit_candidate] >>
                  \o FindAllFrom(text, mt.end)
             ELSE FindAllFrom(text, i + 1)

-----------------------------------------------------------------------------
(* The fuzzy matcher: rapidfuzz process.extractOne(unit_candidate,         *)
(* all_units, score_cutoff=95) with its default scorer WRatio.  Scores are *)
(* kept in thousandths (ScoreScale) so that they stay integers.            *)

score_cutoff == 95

ScoreScale == 1000

RECURSIVE LcsRow(_, _, _, _)
\* one row of the longest-common-subsequence table: prev is the row of the
\* previous character of s1, cur the part of this row already filled
LcsRow(prev, c, s2, cur) ==
    IF Len(cur) = Len(s2) + 1 THEN cur
    ELSE LET j == Len(cur)
             v == IF Char(s2, j) = c THEN prev[j] + 1
                  ELSE Max(prev[j + 1], cur[j])
         IN  LcsRow(prev, c, s2, Append(cur, v))

RECURSIVE LcsRows(_, _, _, _)
LcsRows(s1, s2, i, prev) ==
    IF i > Len(s1) THEN prev
    ELSE LcsRows(s1, s2, i + 1, LcsRow(prev, Char(s1, i), s2, << 0 >>))

\* length of the longest common subsequence
LcsLen(s1, s2) ==
    LcsRows(s1, s2, 1, [j \in 1..(Len(s2) + 1) |-> 0])[Len(s2) + 1]

\* fuzz.ratio: the normalized Indel similarity 100 * 2 * lcs / (len1 + len2).
\* No string of the longer length can score above 200 * min / (len1 + len2),
\* so below the cutoff the table is not computed (the score is then 0, as
\* rapidfuzz reports a score under its score_cutoff).
Ratio(s1, s2) ==
    LET total == Len(s1) + Len(s2)
    IN  IF total = 0 THEN 100 * ScoreScale
        ELSE IF 200 * Min(Len(s1), Len(s2)) < score_cutoff * total THEN 0
        ELSE (200 * ScoreScale * LcsLen(s1, s2)) \div total

\* the end (exclusive) of the run of non-whitespace characters that starts at i
TokenEnd(s, i) ==
    CHOOSE j \in i..(Len(s) + 1) :
        /\ \A k \in i..(j - 1) : Char(s, k) \notin Whitespace
        /\ j = Len(s) + 1 \/ Char(s, j) \in Whitespace

\* str.split(): the whitespace-separated tokens, as a set
Tokens(s) ==
    {SubSeq(s, i, TokenEnd(s, i) - 1) :
        i \in {k \in 1..Len(s) : /\ Char(s, k) \notin Whitespace
                                 /\ k = 1 \/ Char(s, k - 1) \in Whitespace}}

\* max(token_sort_ratio, token_set_ratio) is 100 exactly when one string's
\* token set holds the other's; WRatio scales it by 0.95, so every smaller
\* token ratio lands under the cutoff and scores 0
TokenRatio(s1, s2) ==
    IF /\ Tokens(s1) # {}
       /\ Tokens(s2) # {}
       /\ Tokens(s1) \subseteq Tokens(s2) \/ Tokens(s2) \subseteq Tokens(s1)
    THEN 100 * ScoreScale
    ELSE 0

\* fuzz.WRatio under score_cutoff.  With a length ratio of 1.5 or more it
\* weighs partial_ratio by at most 0.9, which cannot reach the cutoff: only
\* the plain ratio remains there.
WRatio(s1, s2) ==
    LET r  == Ratio(s1, s2)
        tr == IF 2 * Max(Len(s1), Len(s2)) < 3 * Min(Len(s1), Len(s2))
              THEN (TokenRatio(s1, s2) * 95) \div 100
              ELSE 0
        sc == Max(r, tr)
    IN  IF s1 = "" \/ s2 = "" THEN 0
        ELSE IF sc >= score_cutoff * ScoreScale THEN sc ELSE 0

RECURSIVE NonAlnumToSpace(_)
NonAlnumToSpace(s) ==
    IF s = "" THEN ""
    ELSE (IF Char(s, 1) \in AlphaNumeric THEN Char(s, 1) ELSE " ")
         \o NonAlnumToSpace(SubSeq(s, 2, Len(s)))

\* rapidfuzz.utils.default_process: lower case, non-alphanumerics to
\* spaces, stripped
default_process(s) == Strip(NonAlnumToSpace(Lower(s)))

\* Releases of rapidfuzz before 3.0 pre-process query and choices with
\* default_process inside process.extractOne; later ones do not.
Processors == {"none", "default_process"}

Processed(proc, s) == IF proc = "default_process" THEN default_process(s) ELSE s

\* the choices as the scorer sees them under default_process
all_units_processed == [i \in 1..Len(all_units) |-> default_process(all_units[i])]

Choices(proc) == IF proc = "default_process" THEN all_units_processed ELSE all_units

None == "None"

\* process.extractOne(query, all_units, score_cutoff=95): the choice of the
\* best score, the first of them among equals, None under the cutoff
extractOne(proc, query) ==
    LET q == Processed(proc, query)
        scores == [i \in 1..Len(all_units) |-> WRatio(q, Choices(proc)[i])]
        accepted == {i \in 1..Len(all_units) : scores[i] >= score_cutoff * ScoreScale}
    IN  IF accepted = {} THEN None
        ELSE all_units[CHOOSE i \in accepted :
                          \A j \in accepted : \/ scores[j] < scores[i]
                                              \/ scores[j] = scores[i] /\ i <= j]

\* the body of the loop of extract_numbers_with_units for one match:
\* the entry it appends to results (none when the matcher rejects the unit)
MatchedEntry(proc, num, candidate) ==
    LET results_fuzzy == extractOne(proc, candidate)
    IN  IF results_fuzzy # None
        THEN << num \o " " \o results_fuzzy >>
        ELSE << >>

RECURSIVE MatchAll(_, _)
MatchAll(proc, matches) ==
    IF matches = << >> THEN << >>
    ELSE MatchedEntry(proc, Head(matches).number, Head(matches).unit_candidate)
         \o MatchAll(proc, Tail(matches))

extract_numbers_with_units(proc, text) == MatchAll(proc, FindAllFrom(text, 1))

-----------------------------------------------------------------------------
(* PART 2: separation.  The pattern of re.match: a run of [0-9.], optional *)
(* whitespace, a run of word characters.                                   *)

\* re.match on one item.  The number group is greedy but gives characters
\* back when the rest cannot match: with g characters kept, the unit must
\* start right after them (g shorter than the run: the next character is of
\* the run, and only a digit of it is a word character) or after the
\* whitespace that follows the whole run.
SeparateMatch(item) ==
    LET k == RunEnd(item, 1, NumberChars) - 1
        unitStart(g) == IF g = k THEN RunEnd(item, k + 1, Whitespace) ELSE g + 1
        fits(g) == /\ unitStart(g) <= Len(item)
                   /\ Char(item, unitStart(g)) \in WordChars
        kept == {g \in 1..k : fits(g)}
    IN  IF kept = {} THEN NoMatch
        ELSE LET g == CHOOSE x \in kept : \A y \in kept : y <= x
             IN  [ok |-> TRUE,
                  number |-> SubSeq(item, 1, g),
                  unit |-> SubSeq(item, unitStart(g),
                                  RunEnd(item, unitStart(g), WordChars) - 1)]

RECURSIVE separate_numbers_and_units(_)
\* (numbers_list, units_list): an item that does not match adds to neither
separate_numbers_and_units(out) ==
    IF out = << >> THEN [numbers |-> << >>, units |-> << >>]
    ELSE LET mt   == SeparateMatch(Head(out))
             rest == separate_numbers_and_units(Tail(out))
         IN  IF mt.ok
             THEN [numbers |-> << mt.number >> \o rest.numbers,
                   units   |-> << mt.unit >> \o rest.units]
             ELSE rest

-----------------------------------------------------------------------------
(* PART 3: full forms                                                      *)

\* the first entry of the vocabulary, in dict order, whose full name or one
\* of whose abbreviations is the cleaned input; "" when there is none
get_full_unit(unit_input) ==
    LET cleaned == CollapseWhitespace(Strip(Lower(unit_input)))
        claims(i) ==
            \/ cleaned = unit_fullform_to_abbreviation[i].full
            \/ \E a \in 1..Len(unit_fullform_to_abbreviation[i].abbreviations) :
                  cleaned = unit_fullform_to_abbreviation[i].abbreviations[a]
        found == {i \in 1..Len(unit_fullform_to_abbreviation) : claims(i)}
    IN  IF found = {} THEN ""
        ELSE unit_fullform_to_abbreviation[
                 CHOOSE i \in found : \A j \in found : i <= j].full

\* lines 149-155 of convert_to_full_unit, from the extracted output on
SeparateAndConvert(out) ==
    LET sep == separate_numbers_and_units(out)
    IN  [numbers    |-> sep.numbers,
         full_units |-> [i \in 1..Len(sep.units) |-> get_full_unit(sep.units[i])]]

convert_to_full_unit(proc, text) ==
    SeparateAndConvert(extract_numbers_with_units(proc, text))

-----------------------------------------------------------------------------
(* Decimal arithmetic standing for float                                   *)

RECURSIVE Pow10(_)
Pow10(k) == IF k = 0 THEN 1 ELSE 10 * Pow10(k - 1)

RECURSIVE NumDigits(_)
NumDigits(n) == IF n < 10 THEN 1 ELSE 1 + NumDigits(n \div 10)

RECURSIVE DecNorm(_, _)
\* m * 10^e with the trailing zeros of m moved into e
DecNorm(m, e) ==
    IF m = 0 THEN [m |-> 0, e |-> 0]
    ELSE IF m % 10 = 0 THEN DecNorm(m \div 10, e + 1)
    ELSE [m |-> m, e |-> e]

DecMul(a, b) == DecNorm(a.m * b.m, a.e + b.e)

\* a < b, for non-negative decimals
DecLess(a, b) ==
    IF a.m = 0 THEN b.m > 0
    ELSE IF b.m = 0 THEN FALSE
    ELSE LET oa == NumDigits(a.m) + a.e
             ob == NumDigits(b.m) + b.e
             lo == Min(a.e, b.e)
         IN  IF oa # ob THEN oa < ob
             ELSE a.m * Pow10(a.e - lo) < b.m * Pow10(b.e - lo)

DigitValue(c) == CHOOSE d \in 0..9 : Char("0123456789", d + 1) = c

RECURSIVE IntOfDigits(_)
IntOfDigits(s) ==
    IF s = "" THEN 0
    ELSE 10 * IntOfDigits(SubSeq(s, 1, Len(s) - 1)) + DigitValue(Char(s, Len(s)))

\* the strings of [0-9.] that float() accepts: one point at most, a digit
IsFloatLiteral(s) ==
    /\ \A i \in 1..Len(s) : Char(s, i) \in NumberChars
    /\ Cardinality({i \in 1..Len(s) : Char(s, i) = "."}) <= 1
    /\ \E i \in 1..Len(s) : Char(s, i) \in Digits

\* float(num)
ParseFloat(s) ==
    LET dots == {i \in 1..Len(s) : Char(s, i) = "."}
    IN  IF dots = {} THEN DecNorm(IntOfDigits(s), 0)
        ELSE LET d == CHOOSE i \in dots : TRUE
             IN  DecNorm(IntOfDigits(SubSeq(s, 1, d - 1) \o SubSeq(s, d + 1, Len(s))),
                         d - Len(s))

-----------------------------------------------------------------------------
(* PART 4: categorize and convert                                          *)

\* what a call that raised ValueError leaves instead of a mapping
ValueError == [raised |-> "ValueError"]

EmptyCategorized == [c \in {category_order[i] : i \in 1..Len(category_order)} |-> << >>]

\* a variant that leaves the number in its own unit
ConvertedUnscaled(num, unit) ==
    << ParseFloat(num), num \o " " \o unit >>

\* the tuple appended for one pair: (converted_value, f"{num} {unit}")
Converted(num, unit) ==
    << DecMul(ParseFloat(num), conversion_factors_to_smallest[unit]),
       num \o " " \o unit >>

RECURSIVE CategorizeFrom(_, _, _, _)
\* the loop over zip(numbers, result) from pair i on; float(num) raises
\* ValueError on a string that is no number, and the call ends there
CategorizeFrom(nums, units, i, acc) ==
    IF i > Min(Len(nums), Len(units)) THEN acc
    ELSE LET cats == {c \in DOMAIN acc : units[i] \in unit_categories[c]}
         IN  IF cats = {} THEN CategorizeFrom(nums, units, i + 1, acc)
             ELSE IF ~IsFloatLiteral(nums[i]) THEN ValueError
             ELSE CategorizeFrom(nums, units, i + 1,
                     [c \in DOMAIN acc |->
                         IF c \in cats
                         THEN Append(acc[c], Converted(nums[i], units[i]))
                         ELSE acc[c]])

categorize_values(nums, result) == CategorizeFrom(nums, result, 1, EmptyCategorized)

-----------------------------------------------------------------------------
(* PART 5: selection                                                       *)

\* a variant that returns the last of the largest
MaxDisplayLast(values) ==
    LET i == CHOOSE x \in 1..Len(values) :
                 /\ \A y \in 1..Len(values) : ~DecLess(values[x][1], values[y][1])
                 /\ \A y \in (x + 1)..Len(values) : DecLess(values[y][1], values[x][1])
    IN  values[i][2]

\* max(values, key=lambda x: x[0])[1]: the first of the largest
MaxDisplay(values) ==
    LET i == CHOOSE x \in 1..Len(values) :
                 /\ \A y \in 1..Len(values) : ~DecLess(values[x][1], values[y][1])
                 /\ \A y \in 1..(x - 1) : DecLess(values[y][1], values[x][1])
    IN  values[i][2]

\* min(values, key=lambda x: x[0])[1]: the first of the smallest
MinDisplay(values) ==
    LET i == CHOOSE x \in 1..Len(values) :
                 /\ \A y \in 1..Len(values) : ~DecLess(values[y][1], values[x][1])
                 /\ \A y \in 1..(x - 1) : DecLess(values[x][1], values[y][1])
    IN  values[i][2]

\* a variant whose chain ends in a catch-all on the length list
get_entity_value_else_length(entity_value, cv) ==
    IF entity_value \in {"item_weight", "maximum_weight_recommendation"} /\ cv["weight"] # << >>
    THEN MaxDisplay(cv["weight"])
    ELSE IF entity_value = "voltage" /\ cv["voltage"] # << >>
    THEN MaxDisplay(cv["voltage"])
    ELSE IF entity_value = "item_volume" /\ cv["volume"] # << >>
    THEN MaxDisplay(cv["volume"])
    ELSE IF entity_value = "wattage" /\ cv["wattage"] # << >>
    THEN MaxDisplay(cv["wattage"])
    ELSE IF cv["length"] # << >>
    THEN IF entity_value = "width"
         THEN MinDisplay(cv["length"])
         ELSE MaxDisplay(cv["length"])
    ELSE None

\* get_entity_value(entity_value, categorized_values): the if/elif chain of
\* lines 198-210, and None when no branch applies (line 212)
get_entity_value(entity_value, cv) ==
    IF entity_value \in {"item_weight", "maximum_weight_recommendation"} /\ cv["weight"] # << >>
    THEN MaxDisplay(cv["weight"])
    ELSE IF entity_value = "voltage" /\ cv["voltage"] # << >>
    THEN MaxDisplay(cv["voltage"])
    ELSE IF entity_value = "item_volume" /\ cv["volume"] # << >>
    THEN MaxDisplay(cv["volume"])
    ELSE IF entity_value = "wattage" /\ cv["wattage"] # << >>
    THEN MaxDisplay(cv["wattage"])
    ELSE IF entity_value \in {"width", "depth", "height"} /\ cv["length"] # << >>
    THEN IF entity_value = "width"
         THEN MinDisplay(cv["length"])
         ELSE MaxDisplay(cv["length"])
    ELSE None

-----------------------------------------------------------------------------
(* The pipeline as steps: extract, separate and convert, categorize,       *)
(* select.                                                                 *)

\* the entity names of the if/elif chain, and one it does not know
EntityNames ==
    {"item_weight", "maximum_weight_recommendation", "voltage", "item_volume",
     "wattage", "width", "depth", "height", "unknown_entity"}

\* the output file: absent, or present with its records (the rows under the header)
NoFile == [exists |-> FALSE, rows |-> << >>]

FileOf(rows) == [exists |-> TRUE, rows |-> rows]

\* the driver at rest: the pipeline is exercised on its own
DriverIdle ==
    /\ data = << >>
    /\ pos = 0
    /\ image = None
    /\ results = << >>
    /\ output_csv = NoFile
    /\ runs = 0

\* extract_numbers_with_units(input_text): line 148
Extract ==
    /\ pc = "start"
    /\ LET matches == FindAllFrom(input_text, 1)
       IN  /\ output' = MatchAll(processor, matches)
           /\ number' = IF matches = << >> THEN number
                        ELSE matches[Len(matches)].number
           /\ unit_candidate' = IF matches = << >> THEN unit_candidate
                                ELSE matches[Len(matches)].unit_candidate
    /\ pc' = "extracted"
    /\ UNCHANGED << processor, input_text, numbers, full_units, categorized_values,
                    entity_name, final_val >>
    /\ UNCHANGED driverVars

\* the loop body of extract_numbers_with_units for one regular-expression
\* match (number, unit_candidate): lines 80-86
MatchUnit ==
    /\ pc = "matching"
    /\ output' = MatchedEntry(processor, number, unit_candidate)
    /\ pc' = "extracted"
    /\ UNCHANGED << processor, number, unit_candidate, input_text, numbers, full_units,
                    categorized_values, entity_name, final_val >>
    /\ UNCHANGED driverVars

\* separate_numbers_and_units and get_full_unit: lines 149-155
Separate ==
    /\ pc = "extracted"
    /\ numbers' = SeparateAndConvert(output).numbers
    /\ full_units' = SeparateAndConvert(output).full_units
    /\ pc' = "converted"
    /\ UNCHANGED << processor, number, unit_candidate, input_text, output,
                    categorized_values, entity_name, final_val >>
    /\ UNCHANGED driverVars

\* categorize_values(num, units)
Categorize ==
    /\ pc = "converted"
    /\ categorized_values' = categorize_values(numbers, full_units)
    /\ pc' = IF categorize_values(numbers, full_units) = ValueError
             THEN "raised" ELSE "categorized"
    /\ UNCHANGED << processor, number, unit_candidate, input_text, output, numbers,
                    full_units, entity_name, final_val >>
    /\ UNCHANGED driverVars

\* get_entity_value(entity_name, categorized_values)
Select ==
    /\ pc = "categorized"
    /\ \E e \in EntityNames :
          /\ entity_name' = e
          /\ final_val' = get_entity_value(e, categorized_values)
    /\ pc' = "done"
    /\ UNCHANGED << processor, number, unit_candidate, input_text, output, numbers,
                    full_units, categorized_values >>
    /\ UNCHANGED driverVars

-----------------------------------------------------------------------------
(* Whole-pipeline runs over texts put together from pieces                 *)

MaxPieces == 4

\* numbers (one of them zero), a space and a dot, a weight abbreviation in two
\* spellings, and a length abbreviation
Pieces == {"2.5", "0", " ", ".", "kg", "Kg", "cm"}

RECURSIVE TextsOf(_)
\* the texts made of exactly n pieces
TextsOf(n) ==
    IF n = 0 THEN {""}
    ELSE {t \o p : t \in TextsOf(n - 1), p \in Pieces}

Texts == UNION {TextsOf(n) : n \in 0..MaxPieces}

InitPipeline ==
    /\ processor \in Processors
    /\ pc = "start"
    /\ input_text \in Texts
    /\ number = None
    /\ unit_candidate = None
    /\ output = << >>
    /\ numbers = << >>
    /\ full_units = << >>
    /\ categorized_values = EmptyCategorized
    /\ entity_name = None
    /\ final_val = None
    /\ DriverIdle

NextPipeline == Extract \/ Separate \/ Categorize \/ Select

SpecPipeline == InitPipeline /\ [][NextPipeline]_vars

-----------------------------------------------------------------------------
(* The matcher and the normalizer on one match: every surface form and     *)
(* every full name of the vocabulary as the unit token                     *)

MatchNumbers == {"5", "2.5", "12"}

AllUnitsSet == {all_units[i] : i \in 1..Len(all_units)}

FullNames ==
    {unit_fullform_to_abbreviation[i].full : i \in 1..Len(unit_fullform_to_abbreviation)}

UnitCandidates == AllUnitsSet \cup FullNames \cup {"KG", "xyz", "centimeterss"}

InitMatcher ==
    /\ processor \in Processors
    /\ pc = "matching"
    /\ number \in MatchNumbers
    /\ unit_candidate \in UnitCandidates
    /\ input_text = number \o " " \o unit_candidate
    /\ output = << >>
    /\ numbers = << >>
    /\ full_units = << >>
    /\ categorized_values = EmptyCategorized
    /\ entity_name = None
    /\ final_val = None
    /\ DriverIdle

NextMatcher == MatchUnit \/ Separate \/ Categorize \/ Select

SpecMatcher == InitMatcher /\ [][NextMatcher]_vars

-----------------------------------------------------------------------------
(* categorize_values and get_entity_value on lists of (number, unit) pairs *)

MaxPairs == 2

\* numbers as the extractor writes them
PairNumbers == {"1", "4", "1000", "2.5"}

\* what get_full_unit returns: full names (categorized or not) or ""
PairUnits == {"gram", "kilogram", "millimetre", "metre", "quart", "gallon", "cup", ""}

RECURSIVE PairLists(_)
\* the lists of exactly n pairs, as [numbers, full_units]
PairLists(n) ==
    IF n = 0 THEN {[numbers |-> << >>, full_units |-> << >>]}
    ELSE {[numbers |-> Append(l.numbers, x), full_units |-> Append(l.full_units, u)] :
             l \in PairLists(n - 1), x \in PairNumbers, u \in PairUnits}

InitConvert ==
    /\ processor \in Processors
    /\ pc = "converted"
    /\ \E l \in UNION {PairLists(n) : n \in 0..MaxPairs} :
          /\ numbers = l.numbers
          /\ full_units = l.full_units
    /\ number = None
    /\ unit_candidate = None
    /\ input_text = None
    /\ output = << >>
    /\ categorized_values = EmptyCategorized
    /\ entity_name = None
    /\ final_val = None
    /\ DriverIdle

NextConvert == Categorize \/ Select

SpecConvert == InitConvert /\ [][NextConvert]_vars

-----------------------------------------------------------------------------
(* final_main.py: the driver                                               *)

batch_size == 5

MaxRows == 6

MaxStart == 1

MaxRuns == 2

\* the images behind the links of the model's tables
Links == << "label.jpg", "gone.jpg", "bad.jpg", "odd.jpg" >>

DriverEntities == << "item_weight", "width" >>

\* What the network, the image library and the OCR engine do with a link:
\* load_image_from_url returns None (any failure to download), or the image
\* is read and the try block ends with the OCR text or with an exception e.
World(image_link) ==
    CASE image_link = "label.jpg" -> [image |-> "loaded", text |-> "2.5 kg"]
      [] image_link = "gone.jpg"  -> [image |-> "unavailable", text |-> ""]
      [] image_link = "bad.jpg"   -> [image |-> "exception", text |-> "bad image"]
      [] image_link = "odd.jpg"   -> [image |-> "exception", text |-> "got 4 in image"]

\* lines 135-151: the text the pipeline is given
ExtractedText(image_link) ==
    IF World(image_link).image = "loaded" THEN World(image_link).text
    ELSE IF World(image_link).image = "exception"
         THEN "Error: " \o World(image_link).text
         ELSE "Image not available"

\* data = pd.read_csv(input_csv): n rows; the index column counts up from
\* start, links and entity names cycle through Links and DriverEntities
Table(n, start, ls, es) ==
    [i \in 1..n |->
        [index       |-> start + i - 1,
         image_link  |-> Links[((i - 1 + ls) % Len(Links)) + 1],
         entity_name |-> DriverEntities[((i - 1 + es) % Len(DriverEntities)) + 1]]]

Init ==
    /\ processor \in Processors
    /\ pc = "loop"
    /\ \E n \in 1..MaxRows, start \in 0..MaxStart,
          ls \in 0..(Len(Links) - 1), es \in 0..(Len(DriverEntities) - 1) :
          data = Table(n, start, ls, es)
    /\ pos = 0
    /\ image = None
    /\ results = << >>
    /\ output_csv = NoFile
    /\ runs = 1
    /\ number = None
    /\ unit_candidate = None
    /\ input_text = None
    /\ output = << >>
    /\ numbers = << >>
    /\ full_units = << >>
    /\ categorized_values = EmptyCategorized
    /\ entity_name = None
    /\ final_val = None

\* one iteration of the main loop: lines 125-181
ProcessRow ==
    /\ pc = "loop"
    /\ pos < Len(data)
    /\ \E row \in {data[pos + 1]} :
       \E text \in {ExtractedText(row.image_link)} :
       \E matches \in {FindAllFrom(text, 1)} :
       \E out \in {MatchAll(processor, matches)} :
       \E conv \in {SeparateAndConvert(out)} :
       \E cv \in {categorize_values(conv.numbers, conv.full_units)} :
       \E val \in {get_entity_value(row.entity_name, cv)} :
       \E appended \in {Append(results, [index |-> row.index, prediction |-> val])} :
       \E save \in {\/ (row.index + 1) % batch_size = 0
                    \/ row.index = Len(data) - 1} :
           /\ image' = World(row.image_link).image
           /\ input_text' = text
           /\ number' = IF matches = << >> THEN number
                        ELSE matches[Len(matches)].number
           /\ unit_candidate' = IF matches = << >> THEN unit_candidate
                                ELSE matches[Len(matches)].unit_candidate
           /\ output' = out
           /\ numbers' = conv.numbers
           /\ full_units' = conv.full_units
           /\ categorized_values' = cv
           /\ entity_name' = row.entity_name
           /\ final_val' = val
           /\ results' = IF save THEN << >> ELSE appended
           /\ output_csv' = IF ~save THEN output_csv
                            ELSE IF ~output_csv.exists THEN FileOf(appended)
                            ELSE FileOf(output_csv.rows \o appended)
    /\ pos' = pos + 1
    /\ pc' = IF pos + 1 = Len(data) THEN "finished" ELSE "loop"
    /\ UNCHANGED << processor, data, runs >>

\* the script is started again over the same input, after a run that ended
\* or was cut short: lines 113-122 run anew, the output file stays
Restart ==
    /\ runs < MaxRuns
    /\ pos > 0
    /\ runs' = runs + 1
    /\ pos' = 0
    /\ results' = << >>
    /\ pc' = "loop"
    /\ UNCHANGED << processor, data, output_csv, image >>
    /\ UNCHANGED pipeVars

Next == ProcessRow \/ Restart

Spec == Init /\ [][Next]_vars

-----------------------------------------------------------------------------
(* What the specification says, as tables of its own                       *)

\* the Entity Selection Rule: entity name -> (category, direction)
EntityRule ==
       ("item_weight" :> [category |-> "weight", direction |-> "max"])
    @@ ("maximum_weight_recommendation" :> [category |-> "weight", direction |-> "max"])
    @@ ("voltage" :> [category |-> "voltage", direction |-> "max"])
    @@ ("item_volume" :> [category |-> "volume", direction |-> "max"])
    @@ ("wattage" :> [category |-> "wattage", direction |-> "max"])
    @@ ("width" :> [category |-> "length", direction |-> "min"])
    @@ ("depth" :> [category |-> "length", direction |-> "max"])
    @@ ("height" :> [category |-> "length", direction |-> "max"])

\* a is strictly more extreme than b in the rule's direction
Beats(direction, a, b) ==
    IF direction = "max" THEN DecLess(b, a) ELSE DecLess(a, b)

\* the list get_entity_value is to select from
RuleList == categorized_values[EntityRule[entity_name].category]

\* the positions of the pairs of (numbers, full_units) whose unit is of category c
PairsOf(c) ==
    {i \in 1..Min(Len(numbers), Len(full_units)) : full_units[i] \in unit_categories[c]}

\* the place of pair i among the pairs of its category
RankIn(c, i) == Cardinality({j \in PairsOf(c) : j <= i})

\* whole-number multiples between units, by the definition of the units:
\* << u1, k, u2 >> says that one u1 is k u2
MetricRelations ==
    { << "kilogram", 1000, "gram" >>, << "metre", 1000, "millimetre" >> }

UnitRelations == MetricRelations \cup { << "gallon", 4, "quart" >> }

IsWholeNumber(x) == \A i \in 1..Len(x) : Char(x, i) \in Digits

\* pairs i and j state the same physical quantity, by a relation of rels
SameQuantity(rels, i, j) ==
    \E r \in rels :
        /\ full_units[i] = r[1]
        /\ full_units[j] = r[3]
        /\ IsWholeNumber(numbers[i])
        /\ IsWholeNumber(numbers[j])
        /\ IntOfDigits(numbers[i]) * r[2] = IntOfDigits(numbers[j])

\* the categorized mapping is the partition of the pairs, in order, and pairs
\* that rels makes equal quantities have equal base_scale_value
PartitionOf(rels) ==
    /\ DOMAIN categorized_values = {"length", "weight", "voltage", "volume", "wattage"}
    /\ \A c \in DOMAIN categorized_values :
          /\ Len(categorized_values[c]) = Cardinality(PairsOf(c))
          /\ \A i \in PairsOf(c) :
                /\ categorized_values[c][RankIn(c, i)] =
                      << DecMul(ParseFloat(numbers[i]),
                                conversion_factors_to_smallest[full_units[i]]),
                         numbers[i] \o " " \o full_units[i] >>
                /\ \A d \in DOMAIN categorized_values \ {c} : i \notin PairsOf(d)
          /\ \A i, j \in PairsOf(c) :
                SameQuantity(rels, i, j) =>
                    categorized_values[c][RankIn(c, i)][1] =
                    categorized_values[c][RankIn(c, j)][1]

-----------------------------------------------------------------------------
(* Claims                                                                  *)

\* C1: get_entity_value returns the display of the Measurement of largest
\* base_scale_value of the rule's category list (smallest for width), and
\* the first such Measurement of the list when several share that value.
C1_SelectsFirstExtremal ==
    (/\ pc = "done"
     /\ entity_name \in DOMAIN EntityRule
     /\ RuleList # << >>)
    => \E i \in 1..Len(RuleList) :
          /\ final_val = RuleList[i][2]
          /\ \A j \in 1..Len(RuleList) :
                ~Beats(EntityRule[entity_name].direction, RuleList[j][1], RuleList[i][1])
          /\ \A j \in 1..(i - 1) :
                Beats(EntityRule[entity_name].direction, RuleList[i][1], RuleList[j][1])

\* C1 witness: two Measurements tie on the extremal value under different
\* displays, and the first one was returned
C1_Witness ==
    /\ pc = "done"
    /\ entity_name \in DOMAIN EntityRule
    /\ Len(RuleList) = 2
    /\ RuleList[1][1] = RuleList[2][1]
    /\ RuleList[1][2] # RuleList[2][2]
    /\ final_val = RuleList[1][2]

\* C2: get_entity_value returns none exactly when the entity name is not one
\* of the eight known ones or the list of its own category is empty, whatever
\* the other lists hold; it always returns.
C2_NoneIffNoCandidates ==
    pc = "done" =>
        (final_val = None <=>
            (\/ entity_name \notin DOMAIN EntityRule
             \/ RuleList = << >>))

\* C2 witness: a known entity whose own list is empty while another list is
\* not, answered with none
C2_Witness ==
    /\ pc = "done"
    /\ entity_name = "item_weight"
    /\ categorized_values["weight"] = << >>
    /\ categorized_values["length"] # << >>
    /\ final_val = None

\* C3: the result of the whole pipeline is none or "<number> <unit>", where
\* <unit> is a full unit name of the category of the entity's rule and
\* <number> is a number written in the text (digits with an optional
\* fraction) that is followed there, after optional whitespace, by the
\* letters the matcher took for a surface form of that unit.
C3_ResultComesFromText ==
    pc = "done" =>
        \/ final_val = None
        \/ /\ entity_name \in DOMAIN EntityRule
           /\ \E i \in 1..Len(input_text), j \in 2..(Len(input_text) + 1) :
                 /\ i < j
                 /\ Char(input_text, i) \in Digits
                 /\ Char(input_text, j - 1) \in Digits
                 /\ \A k \in i..(j - 1) : Char(input_text, k) \in NumberChars
                 /\ Cardinality({k \in i..(j - 1) : Char(input_text, k) = "."}) <= 1
                 /\ Len(final_val) > j - i + 1
                 /\ SubSeq(final_val, 1, j - i + 1) = SubSeq(input_text, i, j - 1) \o " "
                 /\ LET unit    == SubSeq(final_val, j - i + 2, Len(final_val))
                        k       == RunEnd(input_text, j, Whitespace)
                        t       == SubSeq(input_text, k, RunEnd(input_text, k, AsciiLetters) - 1)
                        matched == extractOne(processor, t)
                    IN  /\ t # ""
                        /\ unit \in unit_categories[EntityRule[entity_name].category]
                        /\ \E x \in 1..Len(unit_fullform_to_abbreviation) :
                              /\ unit_fullform_to_abbreviation[x].full = unit
                              /\ \E a \in 1..Len(unit_fullform_to_abbreviation[x].abbreviations) :
                                    matched = unit_fullform_to_abbreviation[x].abbreviations[a]

\* C3 witness: a text with two tokens of different numbers, the second of
\* which was selected
C3_Witness ==
    /\ pc = "done"
    /\ Len(numbers) = 2
    /\ numbers[1] # numbers[2]
    /\ final_val = numbers[2] \o " " \o full_units[2]

\* C4: every Measurement of every category list has a strictly positive
\* base_scale_value, and the pairs whose number is not positive are dropped.
C4_MeasurementsPositive ==
    pc \in {"categorized", "done"} =>
        \A c \in DOMAIN categorized_values :
            /\ \A i \in 1..Len(categorized_values[c]) :
                  categorized_values[c][i][1].m > 0
            /\ Len(categorized_values[c]) =
                  Cardinality({i \in PairsOf(c) : ParseFloat(numbers[i]).m > 0})

C6_NoDuplicateRecords ==
    \A i, j \in 1..Len(output_csv.rows) :
        output_csv.rows[i].index = output_csv.rows[j].index => i = j

\* C7: when the main loop has finished, the results buffer is empty and the
\* last len(data) records of the file are the rows of the table, in row
\* order (all of the file, in a first run).
C7_AllRowsSavedOnce ==
    pc = "finished" =>
        /\ results = << >>
        /\ output_csv.exists
        /\ Len(output_csv.rows) >= Len(data)
        /\ runs = 1 => Len(output_csv.rows) = Len(data)
        /\ \A i \in 1..Len(data) :
              output_csv.rows[Len(output_csv.rows) - Len(data) + i].index = data[i].index

C9_MatcherKnowsNormalizerForms ==
    /\ get_full_unit(unit_candidate) # "" =>
          CollapseWhitespace(Strip(Lower(unit_candidate))) \in AllUnitsSet
    /\ \A x, y \in 1..Len(unit_fullform_to_abbreviation) :
          x # y =>
             \A a \in 1..Len(unit_fullform_to_abbreviation[x].abbreviations),
                b \in 1..Len(unit_fullform_to_abbreviation[y].abbreviations) :
                unit_fullform_to_abbreviation[x].abbreviations[a] #
                unit_fullform_to_abbreviation[y].abbreviations[b]

\* C10: a row whose image could not be loaded or whose processing raised
\* gets one record, and its prediction is none.
C10_FailedRowPredictsNone ==
    (pos > 0 /\ image \in {"unavailable", "exception"}) =>
        /\ final_val = None
        /\ LET written == IF results # << >> THEN results ELSE output_csv.rows
           IN  /\ written # << >>
               /\ written[Len(written)] = [index |-> data[pos].index, prediction |-> None]

====
